---- MODULE Spec2Model ----
(***************************************************************************)
(* Team-supply analysis (src/src/analysis/teamSupply.js): the orchestrator *)
(* analyzeTeamSupply, the batch scheduler analyzeWalletsWithTimeout, the   *)
(* per-wallet classifier analyzeWallet, the supply filter and the          *)
(* aggregation, as a state machine whose steps are the turns of the single *)
(* JavaScript execution context (everything between two awaits is one      *)
(* step).                                                                  *)
(***************************************************************************)
EXTENDS Integers, Sequences, FiniteSets

NULL == "null"

(***************************************************************************)
(* Program constants                                                       *)
(***************************************************************************)
DECIMAL_PLACES == 18
FRESH_WALLET_THRESHOLD == 100
EXCESSIVE_THRESHOLD == 1000
EXCESSIVE_LIMIT == 1001
BATCH_SIZE == 5
DOUBLE_PRECISION == 53

KNOWN_LP_POOLS ==
    { "5Q544fKrFoe6tsEbD7S8EmxGTJYAKtTVhAW5Q5pge4j1",
      "6EF8rrecthR5Dkzon8Nwu78hRvfCKubJ14M5uBEwF6P",
      "MoonCVVNZFSYkqNXP6bxHLPL6QQJiMagDL3qcqUQTrG",
      "LBUZKhRxPF3XUpBCjp4YzTKgLccjZhTSDM9YuVaPwxo",
      "5quBtoiQqxF9Jv6KYKctB59NT3gtJD2Y65kdnB1Uev3h",
      "675kPX9MHTjS2zt1qfr1NYHuzeLXfQM9H24wFSUt1Mp8",
      "CPMMoo8L3F4NbTegBCKVNunggL7H1ZpdTHKxQB5qKP1C",
      "GpMZbSM2GgvTKHJirzeGfMFoaZ8UR2X7F4v8vHTvxFbL" }

TEAM_WALLET_CATEGORIES == {"Fresh", "Inactive", "No Token", "No ATA Transaction"}

WalletCategories ==
    {"Normal", "Fresh", "Inactive", "No Token", "No ATA Transaction", "Error"}

CANCELLED_MESSAGE == "Analysis cancelled by user"
NO_TOKEN_INFO_MESSAGE == "No token info found"

\* String.prototype.slice(from, to) and String.prototype.includes
Slice(s, from, to) == SubSeq(s, from + 1, IF to < Len(s) THEN to ELSE Len(s))
Includes(s, sub) ==
    \E k \in 1..(Len(s) - Len(sub) + 1) : SubSeq(s, k, k + Len(sub) - 1) = sub

\* the message of the error the timer rejects the race with
TimeoutMessage(wallet) ==
    "Wallet analysis timeout for " \o Slice(wallet.address, 0, 8) \o "..."

(***************************************************************************)
(* BigNumber: an unsigned decimal, int its integer part and frac the       *)
(* digits after the point, most significant first.  BigNumber.config sets  *)
(* DECIMAL_PLACES = 18 and ROUND_DOWN, which govern division only.         *)
(***************************************************************************)
BigNumber(n) == [int |-> n, frac |-> <<>>]

\* the digits of r / b after the point, k of them, the rest cut off
RECURSIVE FracDigits(_, _, _)
FracDigits(r, b, k) ==
    IF k = 0 THEN <<>>
    ELSE <<(r * 10) \div b>> \o FracDigits((r * 10) % b, b, k - 1)

\* x.dividedBy(y) for integers x, y with y > 0: the quotient to
\* DECIMAL_PLACES digits, rounded down
DividedBy(x, y) ==
    [int |-> x.int \div y.int,
     frac |-> FracDigits(x.int % y.int, y.int, DECIMAL_PLACES)]

Digit(x, k) == IF k <= Len(x.frac) THEN x.frac[k] ELSE 0

\* x.multipliedBy(100): exact, the point moves two digits to the right
MultipliedBy100(x) ==
    [int |-> x.int * 100 + Digit(x, 1) * 10 + Digit(x, 2),
     frac |-> IF Len(x.frac) > 2 THEN SubSeq(x.frac, 3, Len(x.frac)) ELSE <<>>]

\* x.plus(y) for integer-valued y (the balances summed are integers)
Plus(x, y) == [int |-> x.int + y.int, frac |-> x.frac]

\* comparison of the digit strings f and g from position k on, as numbers
RECURSIVE FracCompare(_, _, _)
FracCompare(x, y, k) ==
    IF k > Len(x.frac) /\ k > Len(y.frac) THEN 0
    ELSE IF Digit(x, k) > Digit(y, k) THEN 1
    ELSE IF Digit(x, k) < Digit(y, k) THEN -1
    ELSE FracCompare(x, y, k + 1)

Compare(x, y) ==
    IF x.int > y.int THEN 1
    ELSE IF x.int < y.int THEN -1
    ELSE FracCompare(x, y, 1)

\* a strict comparison in place of isGreaterThanOrEqualTo
IsGreaterThan(x, y) == Compare(x, y) > 0

IsGreaterThanOrEqualTo(x, y) == Compare(x, y) >= 0

\* new BigNumber('0.001')
SUPPLY_THRESHOLD == [int |-> 0, frac |-> <<0, 0, 1>>]

(***************************************************************************)
(* toNumber: the IEEE-754 double nearest to the decimal (round to nearest, *)
(* ties to even), as int plus the binary digits after the point, trailing  *)
(* zeros dropped.                                                          *)
(***************************************************************************)
RECURSIVE BitLength(_)
BitLength(n) == IF n = 0 THEN 0 ELSE 1 + BitLength(n \div 2)

\* the digits from..to of the fraction f as one integer
RECURSIVE Limb(_, _, _)
Limb(f, from, to) ==
    IF from > to THEN 0
    ELSE 10 * Limb(f, from, to - 1) + (IF to <= Len(f) THEN f[to] ELSE 0)

RECURSIVE StripZeros(_)
StripZeros(b) ==
    IF b # <<>> /\ b[Len(b)] = 0 THEN StripZeros(SubSeq(b, 1, Len(b) - 1)) ELSE b

\* the binary fraction b plus one unit in its last place: <<carry, bits>>
RECURSIVE IncrementBits(_)
IncrementBits(b) ==
    IF b = <<>> THEN <<1, <<>> >>
    ELSE IF b[Len(b)] = 0 THEN <<0, SubSeq(b, 1, Len(b) - 1) \o <<1>> >>
    ELSE LET up == IncrementBits(SubSeq(b, 1, Len(b) - 1))
         IN  <<up[1], up[2] \o <<0>> >>

\* The decimal fraction still to convert is (hi * 10^9 + lo) / 10^18, two
\* limbs of nine digits.  Twice it: the bit that leaves and the new limbs.
DoubleCarry(hi, lo) == (2 * hi + (2 * lo) \div 1000000000) \div 1000000000
DoubleHi(hi, lo) == (2 * hi + (2 * lo) \div 1000000000) % 1000000000
DoubleLo(lo) == (2 * lo) % 1000000000

\* whether the rest (in units of the last kept bit) rounds the bits up:
\* above one half, or one half and the last kept bit odd
RoundsUp(int, bits, hi, lo) ==
    LET odd == IF bits = <<>> THEN int % 2 = 1 ELSE bits[Len(bits)] = 1
    IN  DoubleCarry(hi, lo) = 1 /\ (DoubleHi(hi, lo) # 0 \/ DoubleLo(lo) # 0 \/ odd)

\* the binary digits of the fraction, until sig significant bits (those
\* from the first 1 on) are there, then rounded
RECURSIVE ToBits(_, _, _, _, _)
ToBits(int, bits, hi, lo, sig) ==
    IF sig >= DOUBLE_PRECISION
    THEN IF RoundsUp(int, bits, hi, lo)
         THEN LET up == IncrementBits(bits)
              IN  [int |-> int + up[1], bits |-> StripZeros(up[2])]
         ELSE [int |-> int, bits |-> StripZeros(bits)]
    ELSE IF hi = 0 /\ lo = 0 THEN [int |-> int, bits |-> StripZeros(bits)]
    ELSE ToBits(int, Append(bits, DoubleCarry(hi, lo)), DoubleHi(hi, lo), DoubleLo(lo),
                IF sig > 0 \/ DoubleCarry(hi, lo) = 1 THEN sig + 1 ELSE 0)

\* x.toNumber() for x of at most DECIMAL_PLACES fractional digits
ToNumber(x) ==
    ToBits(x.int, <<>>, Limb(x.frac, 1, DECIMAL_PLACES \div 2),
           Limb(x.frac, DECIMAL_PLACES \div 2 + 1, DECIMAL_PLACES), BitLength(x.int))

\* Number.prototype.toString of a non-negative integer: its decimal digits
RECURSIVE BalanceToString(_)
BalanceToString(n) == IF n < 10 THEN <<n>> ELSE BalanceToString(n \div 10) \o <<n % 10>>

(***************************************************************************)
(* What the collaborators answer.  They are outside this code; an answer   *)
(* is "throw" when the call rejects.                                       *)
(***************************************************************************)
UNDEFINED == "undefined"

\* getSignaturesForAddress: throws, or the address has count signatures
SigCounts == {50, 99, 100, 999, 1000, 2000}
SigAnswers ==
    { [kind |-> "throw", count |-> 0] } \cup { [kind |-> "ok", count |-> n] : n \in SigCounts }

\* checkInactivityPeriod: throws, answers nothing, or answers a record; an
\* optional number is a sequence of length at most one
InactivityAnswers ==
    { [kind |-> "throw", message |-> m, category |-> NULL, isInactive |-> FALSE,
       daysSinceLastActivity |-> <<>>] : m \in {"rpc failure", "No Token account"} }
    \cup { [kind |-> "null", message |-> NULL, category |-> NULL, isInactive |-> FALSE,
            daysSinceLastActivity |-> <<>>] }
    \cup { [kind |-> "ok", message |-> NULL, category |-> c, isInactive |-> b,
            daysSinceLastActivity |-> IF b THEN <<45>> ELSE <<>>] :
              c \in {NULL, "No Token", "No ATA Transaction"}, b \in BOOLEAN }

\* analyzeFunding: throws, an empty list, an entry without funder, an entry
FundingAnswers == {"throw", "empty", "nofunder", "funded"}

Profiles ==
    [excess : SigAnswers, fresh : SigAnswers,
     inactivity : InactivityAnswers, funding : FundingAnswers]

VARIABLES
    env,                \* what the outside world holds: supply, holders, oracles
    cancelled,          \* cancellationToken.isCancelled()
    pc,                 \* where analyzeTeamSupply stands
    tokenInfo,          \* tokenInfo, NULL before the fetch
    significantHolders, \* the filtered holder list handed to the scheduler
    i,                  \* the scheduler's loop variable
    lastProgressLog,    \* the scheduler's lastProgressLog
    progressLogs,       \* the indices a progress line was logged for
    delays,             \* how many pacing delays the scheduler has waited
    proc,               \* per wallet index: its analyzeWalletWithTimeout call
    analyzedWallets,    \* the scheduler's analyzedWallets array
    result,             \* the value analyzeTeamSupply resolved with
    error               \* the message analyzeTeamSupply rejected with

vars == <<env, cancelled, pc, tokenInfo, significantHolders, i, lastProgressLog,
          progressLogs, delays, proc, analyzedWallets, result, error>>

Min(a, b) == IF a < b THEN a ELSE b
Max(a, b) == IF a > b THEN a ELSE b

(***************************************************************************)
(* isTeamWalletCategory                                                    *)
(***************************************************************************)
\* the category set with Error let in
IsTeamOrErrorCategory(category) == category \in TEAM_WALLET_CATEGORIES \cup {"Error"}

IsTeamWalletCategory(category) == category \in TEAM_WALLET_CATEGORIES

(***************************************************************************)
(* The supply filter of analyzeTeamSupply (step 3)                         *)
(***************************************************************************)
IsSignificant(holder, total_supply) ==
    IF holder.address \in KNOWN_LP_POOLS THEN FALSE
    ELSE LET rawBalance == BigNumber(holder.balance)
             percentage == DividedBy(rawBalance, BigNumber(total_supply))
         IN  IsGreaterThanOrEqualTo(percentage, SUPPLY_THRESHOLD)

FilterSignificant(allHolders, total_supply) ==
    SelectSeq(allHolders, LAMBDA holder : IsSignificant(holder, total_supply))

(***************************************************************************)
(* The entries analyzeWallet and analyzeWalletWithTimeout produce          *)
(***************************************************************************)
WalletEntry(wallet, category, days, funder, details) ==
    [address |-> wallet.address, balance |-> wallet.balance,
     category |-> category, daysSinceLastActivity |-> days,
     funderAddress |-> funder, fundingDetails |-> details, error |-> UNDEFINED]

ErrorEntry(wallet, message) ==
    [address |-> wallet.address, balance |-> wallet.balance,
     category |-> "Error", daysSinceLastActivity |-> <<>>,
     funderAddress |-> UNDEFINED, fundingDetails |-> UNDEFINED, error |-> message]

\* getSignaturesForAddress(address, {limit}): at most limit signatures
SignaturesLength(count, limit) == Min(count, limit)

\* hasExcessiveTransactions with the bound taken strictly
HasMoreThanThreshold(answer) ==
    IF answer.kind = "throw" THEN FALSE
    ELSE SignaturesLength(answer.count, EXCESSIVE_LIMIT) > EXCESSIVE_THRESHOLD

\* hasExcessiveTransactions: false when the lookup throws
HasExcessiveTransactions(answer) ==
    IF answer.kind = "throw" THEN FALSE
    ELSE SignaturesLength(answer.count, EXCESSIVE_LIMIT) >= EXCESSIVE_THRESHOLD

\* isFreshWallet taking a failed lookup for no signatures at all
FreshWhenUnknown(answer) ==
    IF answer.kind = "throw" THEN TRUE
    ELSE SignaturesLength(answer.count, FRESH_WALLET_THRESHOLD + 1) < FRESH_WALLET_THRESHOLD

\* isFreshWallet: false when the lookup throws
IsFreshWallet(answer) ==
    IF answer.kind = "throw" THEN FALSE
    ELSE SignaturesLength(answer.count, FRESH_WALLET_THRESHOLD + 1) < FRESH_WALLET_THRESHOLD

\* the inactivity check with a thrown 'No Token' message read as the
\* category No Token
CategoryFromMessage(answer, category) ==
    IF answer.kind = "throw" /\ Includes(answer.message, "No Token") THEN "No Token"
    ELSE IF answer.kind # "ok" THEN category
    ELSE IF answer.category = "No Token" THEN "No Token"
    ELSE IF answer.category = "No ATA Transaction" THEN "No ATA Transaction"
    ELSE IF answer.isInactive THEN "Inactive"
    ELSE category

\* the inactivity check read with isInactive first
InactiveFirst(answer, category) ==
    IF answer.kind # "ok" THEN category
    ELSE IF answer.isInactive THEN "Inactive"
    ELSE IF answer.category \in {"No Token", "No ATA Transaction"} THEN answer.category
    ELSE category

\* the category analyzeWallet takes from the inactivity check; a throw or an
\* empty answer leaves it as it was
InactivityCategory(answer, category) ==
    IF answer.kind # "ok" THEN category
    ELSE IF answer.category = "No Token" THEN "No Token"
    ELSE IF answer.category = "No ATA Transaction" THEN "No ATA Transaction"
    ELSE IF answer.isInactive THEN "Inactive"
    ELSE category

InactivityDays(answer) ==
    IF answer.kind = "ok" /\ answer.category \notin {"No Token", "No ATA Transaction"}
       /\ answer.isInactive
    THEN answer.daysSinceLastActivity ELSE <<>>

\* a funding step whose failure reaches the outer catch
FundingFailureIsError(wallet, category, days, answer) ==
    IF answer = "funded" THEN WalletEntry(wallet, category, days, "funder", "details")
    ELSE IF answer = "throw" THEN ErrorEntry(wallet, "funding failed")
    ELSE WalletEntry(wallet, category, days, NULL, NULL)

\* what analyzeWallet returns once analyzeFunding has answered
FundedEntry(wallet, category, days, answer) ==
    IF answer = "funded" THEN WalletEntry(wallet, category, days, "funder", "details")
    ELSE WalletEntry(wallet, category, days, NULL, NULL)

(***************************************************************************)
(* analyzeWallet and analyzeWalletWithTimeout, one record per wallet:      *)
(*   aw       where analyzeWallet stands: the call it awaits, or how it    *)
(*            settled                                                      *)
(*   category, days   its local variables category, daysSinceLastActivity  *)
(*   value    what it returned, thrown the message it threw                *)
(*   entry    what analyzeWalletWithTimeout resolved with (empty: not yet) *)
(*   rejected whether analyzeWalletWithTimeout rejected                    *)
(*   calls    the collaborator calls analyzeWallet has made                *)
(***************************************************************************)
IdleProc ==
    [aw |-> "idle", category |-> "Normal", days |-> <<>>, value |-> <<>>,
     thrown |-> NULL, entry |-> <<>>, rejected |-> FALSE, calls |-> {}]

InFlightStates == {"excess", "fresh", "inactivity", "funding"}

\* a race that takes the last settlement instead of the first
ReturnedLate(p, v) ==
    [p EXCEPT !.aw = "returned", !.value = <<v>>, !.entry = <<v>>]

\* analyzeWallet returns v; the race adopts it unless the timeout has won
Returned(p, v) ==
    [p EXCEPT !.aw = "returned", !.value = <<v>>,
              !.entry = IF p.entry = <<>> THEN <<v>> ELSE p.entry]

\* a catch that keeps the wallet with the default category
CatchKeepsNormal(wallet, message) ==
    [ErrorEntry(wallet, message) EXCEPT !.category = "Normal"]

\* the catch of analyzeWalletWithTimeout: any error becomes an Error entry
TimeoutCatch(wallet, message) == ErrorEntry(wallet, message)

\* analyzeWalletWithTimeout without its catch: the error escapes
ThrewUncaught(p, wallet, message) ==
    [p EXCEPT !.aw = "threw", !.thrown = message, !.rejected = p.entry = <<>>]

\* analyzeWallet throws; the race rejects unless the timeout has won
Threw(p, wallet, message) ==
    [p EXCEPT !.aw = "threw", !.thrown = message,
              !.entry = IF p.entry = <<>>
                        THEN <<TimeoutCatch(wallet, message)>> ELSE p.entry]

MessageIncludesCancelled(message) == Includes(message, "cancelled")

\* the outer catch of analyzeWallet
AnalyzeWalletCatch(p, wallet, message) ==
    IF MessageIncludesCancelled(message) THEN Threw(p, wallet, message)
    ELSE Returned(p, ErrorEntry(wallet, message))

\* the funding analysis called with no poll before it
FundingUnpolled(p, wallet, isCancelled) ==
    [p EXCEPT !.aw = "funding", !.calls = @ \cup {"funding"}]

\* the cancellation poll before the funding analysis, then the call
BeforeFunding(p, wallet, isCancelled) ==
    IF isCancelled THEN AnalyzeWalletCatch(p, wallet, CANCELLED_MESSAGE)
    ELSE [p EXCEPT !.aw = "funding", !.calls = @ \cup {"funding"}]

\* analyzeWallet once hasExcessiveTransactions has answered
AfterExcessive(p, wallet, answer) ==
    IF HasExcessiveTransactions(answer)
    THEN Returned(p, WalletEntry(wallet, p.category, <<>>, NULL, NULL))
    ELSE [p EXCEPT !.aw = "fresh", !.calls = @ \cup {"fresh"}]

\* analyzeWallet once isFreshWallet has answered; a cancellation seen by
\* the poll inside the inner try is caught by the inner catch
AfterFresh(p, wallet, answer, isCancelled) ==
    IF IsFreshWallet(answer)
    THEN BeforeFunding([p EXCEPT !.category = "Fresh"], wallet, isCancelled)
    ELSE IF isCancelled THEN BeforeFunding(p, wallet, isCancelled)
    ELSE [p EXCEPT !.aw = "inactivity", !.calls = @ \cup {"inactivity"}]

\* analyzeWallet once checkInactivityPeriod has answered
AfterInactivity(p, wallet, answer, isCancelled) ==
    BeforeFunding([p EXCEPT !.category = InactivityCategory(answer, p.category),
                            !.days = InactivityDays(answer)],
                  wallet, isCancelled)

\* analyzeWallet once analyzeFunding has answered
AfterFunding(p, wallet, answer) ==
    Returned(p, FundedEntry(wallet, p.category, p.days, answer))

\* analyzeWalletWithTimeout up to its first await: its own poll, then the
\* poll of analyzeWallet, then the call of hasExcessiveTransactions
LaunchWallet(wallet, cancelledAtCall, cancelledAtAnalyze) ==
    IF cancelledAtCall THEN [IdleProc EXCEPT !.rejected = TRUE]
    ELSE IF cancelledAtAnalyze THEN Threw(IdleProc, wallet, CANCELLED_MESSAGE)
    ELSE [IdleProc EXCEPT !.aw = "excess", !.calls = {"excess"}]

(***************************************************************************)
(* The progress log of analyzeWalletWithTimeout, over the indices          *)
(* from..to-1 of one batch                                                 *)
(***************************************************************************)
ProgressStep(n) == Max(1, (n + 9) \div 10)

RECURSIVE LastLogAfter(_, _, _, _)
LastLogAfter(last, from, to, step) ==
    IF from >= to THEN last
    ELSE LastLogAfter(IF from >= last + step THEN from ELSE last, from + 1, to, step)

RECURSIVE LogsAfter(_, _, _, _, _)
LogsAfter(logs, last, from, to, step) ==
    IF from >= to THEN logs
    ELSE IF from >= last + step
         THEN LogsAfter(Append(logs, from), from, from + 1, to, step)
         ELSE LogsAfter(logs, last, from + 1, to, step)

(***************************************************************************)
(* analyzeTeamSupply                                                       *)
(***************************************************************************)
\* checkCancellation that never throws
NoCheckCancellation == FALSE

\* checkCancellation throws
CheckCancellation == cancelled

\* a catch that takes every error for a cancellation
RejectAsCancelled(message) ==
    /\ pc' = "rejected"
    /\ error' = CANCELLED_MESSAGE

\* a catch that rethrows what it caught, cancelled or not
RejectUnconverted(message) ==
    /\ pc' = "rejected"
    /\ error' = message

\* the catch of analyzeTeamSupply
Reject(message) ==
    /\ pc' = "rejected"
    /\ error' = IF cancelled THEN CANCELLED_MESSAGE ELSE message

\* a scheduler that takes the rest of the list as one batch
RestOfList(wallets, i0) == Len(wallets)

BatchEnd(wallets, i0) == Min(i0 + BATCH_SIZE, Len(wallets))

\* the loop without its poll before the batch
RunLoopUnpolled(wallets, i0) ==
    /\ i' = i0
    /\ IF i0 >= Len(wallets)
       THEN /\ pc' = "joined"
            /\ UNCHANGED <<proc, lastProgressLog, progressLogs, error>>
       ELSE /\ pc' = "batch"
            /\ proc' = [k \in 1..Len(wallets) |->
                          IF k > i0 /\ k <= BatchEnd(wallets, i0)
                          THEN LaunchWallet(wallets[k], cancelled, cancelled)
                          ELSE IF k \in DOMAIN proc THEN proc[k] ELSE IdleProc]
            /\ lastProgressLog' = LastLogAfter(lastProgressLog, i0, BatchEnd(wallets, i0),
                                               ProgressStep(Len(wallets)))
            /\ progressLogs' = LogsAfter(progressLogs, lastProgressLog, i0,
                                         BatchEnd(wallets, i0), ProgressStep(Len(wallets)))
            /\ UNCHANGED error

\* one turn of the scheduler's loop at offset i0: leave the loop, or poll
\* and launch the batch
RunLoop(wallets, i0) ==
    /\ i' = i0
    /\ IF i0 >= Len(wallets)
       THEN /\ pc' = "joined"
            /\ UNCHANGED <<proc, lastProgressLog, progressLogs, error>>
       ELSE IF cancelled
       THEN /\ Reject(CANCELLED_MESSAGE)
            /\ UNCHANGED <<proc, lastProgressLog, progressLogs>>
       ELSE /\ pc' = "batch"
            /\ proc' = [k \in 1..Len(wallets) |->
                          IF k > i0 /\ k <= BatchEnd(wallets, i0)
                          THEN LaunchWallet(wallets[k], cancelled, cancelled)
                          ELSE IF k \in DOMAIN proc THEN proc[k] ELSE IdleProc]
            /\ lastProgressLog' = LastLogAfter(lastProgressLog, i0, BatchEnd(wallets, i0),
                                               ProgressStep(Len(wallets)))
            /\ progressLogs' = LogsAfter(progressLogs, lastProgressLog, i0,
                                         BatchEnd(wallets, i0), ProgressStep(Len(wallets)))
            /\ UNCHANGED error

Start ==
    /\ pc = "start"
    /\ IF CheckCancellation THEN Reject(CANCELLED_MESSAGE)
       ELSE pc' = "getAsset" /\ UNCHANGED error
    /\ UNCHANGED <<env, cancelled, tokenInfo, significantHolders, i, lastProgressLog,
                   progressLogs, delays, proc, analyzedWallets, result>>

\* getAsset resolves with the asset
GetAssetFound ==
    /\ pc = "getAsset"
    /\ tokenInfo' = <<[total_supply |-> env.supply, symbol |-> "SYM", address |-> "token"]>>
    /\ IF CheckCancellation THEN Reject(CANCELLED_MESSAGE)
       ELSE pc' = "getHolders" /\ UNCHANGED error
    /\ UNCHANGED <<env, cancelled, significantHolders, i, lastProgressLog,
                   progressLogs, delays, proc, analyzedWallets, result>>

\* getAsset resolves with nothing
GetAssetMissing ==
    /\ pc = "getAsset"
    /\ Reject(NO_TOKEN_INFO_MESSAGE)
    /\ UNCHANGED <<env, cancelled, tokenInfo, significantHolders, i, lastProgressLog,
                   progressLogs, delays, proc, analyzedWallets, result>>

\* getAsset rejects
GetAssetFails ==
    /\ pc = "getAsset"
    /\ Reject("getAsset failed")
    /\ UNCHANGED <<env, cancelled, tokenInfo, significantHolders, i, lastProgressLog,
                   progressLogs, delays, proc, analyzedWallets, result>>

\* getHolders resolves: filter, then the scheduler runs up to its first await
GetHoldersReturns ==
    /\ pc = "getHolders"
    /\ IF CheckCancellation
       THEN /\ Reject(CANCELLED_MESSAGE)
            /\ UNCHANGED <<significantHolders, i, lastProgressLog, progressLogs, proc>>
       ELSE /\ significantHolders' = FilterSignificant(env.holders, tokenInfo[1].total_supply)
            /\ RunLoop(significantHolders', 0)
    /\ UNCHANGED <<env, cancelled, tokenInfo, delays, analyzedWallets, result>>

\* getHolders rejects
GetHoldersFails ==
    /\ pc = "getHolders"
    /\ Reject("getHolders failed")
    /\ UNCHANGED <<env, cancelled, tokenInfo, significantHolders, i, lastProgressLog,
                   progressLogs, delays, proc, analyzedWallets, result>>

Oracle(k) == env.world[significantHolders[k].address]

WalletStep(k, p) ==
    /\ proc' = [proc EXCEPT ![k] = p]
    /\ UNCHANGED <<env, cancelled, pc, tokenInfo, significantHolders, i, lastProgressLog,
                   progressLogs, delays, analyzedWallets, result, error>>

\* getSignaturesForAddress settles inside hasExcessiveTransactions
ExcessReply(k) ==
    /\ proc[k].aw = "excess"
    /\ WalletStep(k, AfterExcessive(proc[k], significantHolders[k], Oracle(k).excess))

\* getSignaturesForAddress settles inside isFreshWallet
FreshReply(k) ==
    /\ proc[k].aw = "fresh"
    /\ WalletStep(k, AfterFresh(proc[k], significantHolders[k], Oracle(k).fresh, cancelled))

\* checkInactivityPeriod settles
InactivityReply(k) ==
    /\ proc[k].aw = "inactivity"
    /\ WalletStep(k, AfterInactivity(proc[k], significantHolders[k],
                                     Oracle(k).inactivity, cancelled))

\* analyzeFunding settles
FundingReply(k) ==
    /\ proc[k].aw = "funding"
    /\ WalletStep(k, AfterFunding(proc[k], significantHolders[k], Oracle(k).funding))

\* a race without its timer
TimerNeverFires(k) ==
    /\ FALSE
    /\ WalletStep(k, proc[k])

\* the WALLET_ANALYSIS_TIMEOUT timer fires before analyzeWallet has settled
Timeout(k) ==
    /\ proc[k].aw \in InFlightStates
    /\ proc[k].entry = <<>>
    /\ WalletStep(k, [proc[k] EXCEPT
                        !.entry = <<TimeoutCatch(significantHolders[k], TimeoutMessage(significantHolders[k]))>>])

\* a pacing delay after every batch that reaches the end of the list or not
BatchIsFull(wallets, i0) == i0 + BATCH_SIZE <= Len(wallets)

\* the test before the pacing delay: wallets are left after this batch
HasNextBatch(wallets, i0) == i0 + BATCH_SIZE < Len(wallets)

BatchPositions == (i + 1)..BatchEnd(significantHolders, i)

\* the results of a batch in the reverse order
BatchResultsReversed(ps, from, to) == [k \in 1..(to - from) |-> ps[to + 1 - k].entry[1]]

\* Promise.all: the results in the order of the batch
BatchResults(ps, from, to) == [k \in 1..(to - from) |-> ps[from + k].entry[1]]

\* Promise.all settles: it rejects as soon as one call has rejected, else it
\* resolves once every call has; push the results, then pace or leave the loop
BatchJoin ==
    /\ pc = "batch"
    /\ \/ \E k \in BatchPositions : proc[k].rejected
       \/ \A k \in BatchPositions : proc[k].entry # <<>>
    /\ IF \E k \in BatchPositions : proc[k].rejected
       THEN /\ Reject(CANCELLED_MESSAGE)
            /\ UNCHANGED <<analyzedWallets, i>>
       ELSE /\ analyzedWallets' = analyzedWallets \o
                    BatchResults(proc, i, BatchEnd(significantHolders, i))
            /\ IF HasNextBatch(significantHolders, i)
               THEN pc' = "delay" /\ i' = i
               ELSE pc' = "joined" /\ i' = i + BATCH_SIZE
            /\ UNCHANGED error
    /\ UNCHANGED <<env, cancelled, tokenInfo, significantHolders, lastProgressLog,
                   progressLogs, delays, proc, result>>

\* the BATCH_DELAY timer fires
PacingDelayElapsed ==
    /\ pc = "delay"
    /\ delays' = delays + 1
    /\ RunLoop(significantHolders, i + BATCH_SIZE)
    /\ UNCHANGED <<env, cancelled, tokenInfo, significantHolders, analyzedWallets, result>>

OrNull(x) == IF x \in {NULL, UNDEFINED} THEN NULL ELSE x

Percentage(balance, total_supply) ==
    ToNumber(MultipliedBy100(DividedBy(balance, BigNumber(total_supply))))

TeamWallet(w, total_supply) ==
    [address |-> w.address, balance |-> BalanceToString(w.balance),
     percentage |-> Percentage(BigNumber(w.balance), total_supply),
     category |-> w.category,
     funderAddress |-> OrNull(w.funderAddress),
     fundingDetails |-> OrNull(w.fundingDetails)]

TeamWallets(wallets, total_supply) ==
    LET team == SelectSeq(wallets, LAMBDA w : IsTeamWalletCategory(w.category))
    IN  [k \in 1..Len(team) |-> TeamWallet(team[k], total_supply)]

RECURSIVE SumBalances(_)
SumBalances(wallets) ==
    IF wallets = <<>> THEN BigNumber(0)
    ELSE Plus(SumBalances(SubSeq(wallets, 1, Len(wallets) - 1)),
              BigNumber(wallets[Len(wallets)].balance))

\* the sum over all the wallets, whatever their category
AllSupplyHeld(wallets) == SumBalances(wallets)

TeamSupplyHeld(wallets) ==
    SumBalances(SelectSeq(wallets, LAMBDA w : IsTeamWalletCategory(w.category)))

TotalSupplyControlled(wallets, total_supply) ==
    Percentage(TeamSupplyHeld(wallets), total_supply)

\* a result whose tracking view is computed a second time, Error wallets
\* taken for team wallets
AnalysisResultRecomputed(info, wallets) ==
    LET teamWallets == TeamWallets(wallets, info.total_supply)
        totalSupplyControlled == TotalSupplyControlled(wallets, info.total_supply)
        team == SelectSeq(wallets, LAMBDA w : IsTeamOrErrorCategory(w.category))
    IN  [scanData |->
            [tokenInfo |-> [totalSupply |-> info.total_supply, symbol |-> info.symbol,
                            address |-> info.address],
             analyzedWallets |-> wallets,
             teamWallets |-> teamWallets,
             totalSupplyControlled |-> totalSupplyControlled,
             tokenAddress |-> info.address],
         trackingInfo |->
            [tokenAddress |-> info.address, tokenSymbol |-> info.symbol,
             totalSupply |-> info.total_supply,
             totalSupplyControlled |-> Percentage(SumBalances(team), info.total_supply),
             teamWallets |-> [k \in 1..Len(team) |-> TeamWallet(team[k], info.total_supply)],
             allWalletsDetails |-> wallets]]

AnalysisResult(info, wallets) ==
    LET teamWallets == TeamWallets(wallets, info.total_supply)
        totalSupplyControlled == TotalSupplyControlled(wallets, info.total_supply)
    IN  [scanData |->
            [tokenInfo |-> [totalSupply |-> info.total_supply, symbol |-> info.symbol,
                            address |-> info.address],
             analyzedWallets |-> wallets,
             teamWallets |-> teamWallets,
             totalSupplyControlled |-> totalSupplyControlled,
             tokenAddress |-> info.address],
         trackingInfo |->
            [tokenAddress |-> info.address, tokenSymbol |-> info.symbol,
             totalSupply |-> info.total_supply,
             totalSupplyControlled |-> totalSupplyControlled,
             teamWallets |-> teamWallets,
             allWalletsDetails |-> wallets]]

\* the scheduler has returned: steps 5 and 6, then the result
Aggregate ==
    /\ pc = "joined"
    /\ IF CheckCancellation
       THEN Reject(CANCELLED_MESSAGE) /\ UNCHANGED result
       ELSE /\ pc' = "returned"
            /\ result' = <<AnalysisResult(tokenInfo[1], analyzedWallets)>>
            /\ UNCHANGED error
    /\ UNCHANGED <<env, cancelled, tokenInfo, significantHolders, i, lastProgressLog,
                   progressLogs, delays, proc, analyzedWallets>>

\* the caller cancels the token while the call is pending
Cancel ==
    /\ ~cancelled
    /\ pc \notin {"returned", "rejected"}
    /\ cancelled' = TRUE
    /\ UNCHANGED <<env, pc, tokenInfo, significantHolders, i, lastProgressLog,
                   progressLogs, delays, proc, analyzedWallets, result, error>>

(***************************************************************************)
(* Specifications                                                          *)
(***************************************************************************)
MaxHolders == 8

\* a holder list as getHolders returns it: wallets, a pool and a holder
\* below the threshold
HolderTable ==
    << [address |-> "w1", balance |-> 30],
       [address |-> "5Q544fKrFoe6tsEbD7S8EmxGTJYAKtTVhAW5Q5pge4j1", balance |-> 900],
       [address |-> "w2", balance |-> 60],
       [address |-> "dust", balance |-> 2],
       [address |-> "w3", balance |-> 90],
       [address |-> "w4GkT9pQzLm", balance |-> 120],
       [address |-> "w5", balance |-> 150],
       [address |-> "w6", balance |-> 180],
       [address |-> "w7", balance |-> 210],
       [address |-> "w8", balance |-> 240],
       [address |-> "w9", balance |-> 270],
       [address |-> "w10", balance |-> 300] >>

Ok(n) == [kind |-> "ok", count |-> n]
Throws == [kind |-> "throw", count |-> 0]
Inactivity(kind, category, isInactive) ==
    [kind |-> kind, message |-> IF kind = "throw" THEN "rpc failure" ELSE NULL,
     category |-> category, isInactive |-> isInactive,
     daysSinceLastActivity |-> IF isInactive THEN <<45>> ELSE <<>>]

Excessive == [excess |-> Ok(2000), fresh |-> Ok(2000),
              inactivity |-> Inactivity("ok", NULL, FALSE), funding |-> "funded"]
Fresh == [excess |-> Ok(50), fresh |-> Ok(50),
          inactivity |-> Inactivity("ok", NULL, FALSE), funding |-> "funded"]
Dormant == [excess |-> Ok(999), fresh |-> Ok(999),
            inactivity |-> Inactivity("ok", NULL, TRUE), funding |-> "throw"]
Failing == [excess |-> Throws, fresh |-> Throws,
            inactivity |-> Inactivity("throw", NULL, FALSE), funding |-> "empty"]

\* what the oracles answer for the addresses of HolderTable
WorldTable ==
    [a \in {HolderTable[j].address : j \in 1..Len(HolderTable)} |->
        CASE a \in {"w2", "w6"} -> Fresh
          [] a \in {"w3"} -> Dormant
          [] a \in {"w7"} -> Failing
          [] OTHER -> Excessive]

PipelineEnvs ==
    { [supply |-> 3000, holders |-> SubSeq(HolderTable, 1, n), world |-> WorldTable] :
        n \in 0..Min(MaxHolders, Len(HolderTable)) }

InitWith(envs) ==
    /\ env \in envs
    /\ cancelled = FALSE
    /\ pc = "start"
    /\ tokenInfo = <<>>
    /\ significantHolders = <<>>
    /\ i = 0
    /\ lastProgressLog = 0
    /\ progressLogs = <<>>
    /\ delays = 0
    /\ proc = <<>>
    /\ analyzedWallets = <<>>
    /\ result = <<>>
    /\ error = NULL

Init == InitWith(PipelineEnvs)

Wallets == DOMAIN proc

Next ==
    \/ Start
    \/ GetAssetFound
    \/ GetAssetMissing
    \/ GetAssetFails
    \/ GetHoldersReturns
    \/ GetHoldersFails
    \/ \E k \in Wallets : ExcessReply(k)
    \/ \E k \in Wallets : FreshReply(k)
    \/ \E k \in Wallets : InactivityReply(k)
    \/ \E k \in Wallets : FundingReply(k)
    \/ \E k \in Wallets : Timeout(k)
    \/ BatchJoin
    \/ PacingDelayElapsed
    \/ Aggregate
    \/ Cancel

Spec == Init /\ [][Next]_vars

(***************************************************************************)
(* One significant holder, every combination of oracle answers             *)
(***************************************************************************)
WalletEnvs ==
    { [supply |-> 3000, holders |-> << [address |-> "w1", balance |-> 30] >>,
       world |-> [a \in {"w1"} |-> profile]] : profile \in Profiles }

InitWallet == InitWith(WalletEnvs)

NextWallet ==
    \/ Start
    \/ GetAssetFound
    \/ GetAssetMissing
    \/ GetAssetFails
    \/ GetHoldersReturns
    \/ GetHoldersFails
    \/ \E k \in Wallets : ExcessReply(k)
    \/ \E k \in Wallets : FreshReply(k)
    \/ \E k \in Wallets : InactivityReply(k)
    \/ \E k \in Wallets : FundingReply(k)
    \/ \E k \in Wallets : Timeout(k)
    \/ BatchJoin
    \/ Aggregate
    \/ Cancel

SpecWallet == InitWallet /\ [][NextWallet]_vars

(***************************************************************************)
(* The supply filter over holder lists and supplies around the threshold:  *)
(* the run up to the end of the filter step                                *)
(***************************************************************************)
MaxFilterHolders == 2

FilterSupplies == {1, 3, 999, 1000, 1001, 2001, 3000}
FilterBalances == {0, 1, 2, 3, 1000}

\* the addresses the holder at position k may have: a wallet or a pool
PositionAddresses(k) ==
    CASE k = 1 -> {"w1", "5Q544fKrFoe6tsEbD7S8EmxGTJYAKtTVhAW5Q5pge4j1"}
      [] k = 2 -> {"w2", "GpMZbSM2GgvTKHJirzeGfMFoaZ8UR2X7F4v8vHTvxFbL"}
      [] k = 3 -> {"w3", "MoonCVVNZFSYkqNXP6bxHLPL6QQJiMagDL3qcqUQTrG"}
      [] OTHER -> {"w4", "675kPX9MHTjS2zt1qfr1NYHuzeLXfQM9H24wFSUt1Mp8"}

FilterAddresses == UNION {PositionAddresses(k) : k \in 1..4}

HolderLists(n, balances) ==
    { h \in [1..n -> [address : FilterAddresses, balance : balances]] :
        \A k \in 1..n : h[k].address \in PositionAddresses(k) }

FilterEnvs ==
    { [supply |-> t, holders |-> h, world |-> [a \in FilterAddresses |-> Excessive]] :
        t \in FilterSupplies,
        h \in UNION {HolderLists(n, FilterBalances) : n \in 0..Min(MaxFilterHolders, 4)} }

InitFilter == InitWith(FilterEnvs)

NextFilter ==
    \/ Start
    \/ GetAssetFound
    \/ GetHoldersReturns
    \/ Cancel

SpecFilter == InitFilter /\ [][NextFilter]_vars

(***************************************************************************)
(* The aggregation over every mix of categories: the states in which the   *)
(* scheduler has returned from a single batch, the holders listed by       *)
(* falling balance                                                         *)
(***************************************************************************)
MaxAggregateWallets == 3

AggregateSupplies == {3, 17}
AggregateBalances == {1, 2}

AggregateProfiles ==
    { Excessive, Fresh, Dormant,
      [Dormant EXCEPT !.inactivity = Inactivity("ok", "No Token", FALSE)],
      [Dormant EXCEPT !.inactivity = Inactivity("ok", "No ATA Transaction", TRUE)] }

\* analyzeWalletWithTimeout run to its end with no cancellation; timesOut:
\* the timer fires while hasExcessiveTransactions is awaited
RunWallet(wallet, profile, timesOut) ==
    LET launched  == LaunchWallet(wallet, FALSE, FALSE)
        excess    == AfterExcessive(launched, wallet, profile.excess)
        fresh     == AfterFresh(excess, wallet, profile.fresh, FALSE)
        inactive  == AfterInactivity(fresh, wallet, profile.inactivity, FALSE)
    IN  IF timesOut
        THEN [launched EXCEPT !.entry = <<TimeoutCatch(wallet, TimeoutMessage(wallet))>>]
        ELSE IF excess.aw = "returned" THEN excess
        ELSE IF fresh.aw = "funding" THEN AfterFunding(fresh, wallet, profile.funding)
        ELSE AfterFunding(inactive, wallet, profile.funding)

AddressesOf(holders) == {holders[k].address : k \in 1..Len(holders)}

AggregateEnvs ==
    UNION { { [supply |-> t, holders |-> h, world |-> w] :
                w \in [AddressesOf(h) -> AggregateProfiles] } :
            t \in AggregateSupplies,
            h \in { l \in UNION {HolderLists(n, AggregateBalances) :
                                   n \in 0..Min(MaxAggregateWallets, 4)} :
                      /\ \A k \in 1..Len(l) : l[k].address \notin KNOWN_LP_POOLS
                      /\ \A k \in 2..Len(l) : l[k].balance <= l[k - 1].balance } }

InitAggregate ==
    /\ env \in AggregateEnvs
    /\ cancelled = FALSE
    /\ pc = "joined"
    /\ tokenInfo = <<[total_supply |-> env.supply, symbol |-> "SYM", address |-> "token"]>>
    /\ significantHolders = FilterSignificant(env.holders, env.supply)
    /\ i = IF env.holders = <<>> THEN 0 ELSE BATCH_SIZE
    /\ lastProgressLog = LastLogAfter(0, 0, Len(env.holders), ProgressStep(Len(env.holders)))
    /\ progressLogs = LogsAfter(<<>>, 0, 0, Len(env.holders), ProgressStep(Len(env.holders)))
    /\ delays = 0
    /\ \E late \in SUBSET {a \in AddressesOf(env.holders) : env.world[a] = Excessive} :
          proc = [k \in 1..Len(env.holders) |->
                    RunWallet(env.holders[k], env.world[env.holders[k].address],
                              env.holders[k].address \in late)]
    /\ analyzedWallets = BatchResults(proc, 0, Len(env.holders))
    /\ result = <<>>
    /\ error = NULL

NextAggregate ==
    \/ Aggregate
    \/ Cancel

SpecAggregate == InitAggregate /\ [][NextAggregate]_vars

\* Spec on the longest holder list, with the awaited calls settling and the
\* timers firing: a step that can be taken is taken in the end
LiveEnvs ==
    { [e EXCEPT !.world = [WorldTable EXCEPT !["w2"] = Excessive]] :
        e \in {p \in PipelineEnvs : Len(p.holders) = Min(MaxHolders, Len(HolderTable))} }
InitLive == InitWith(LiveEnvs)
SpecLive == InitLive /\ [][Next]_vars /\ WF_vars(Next)

\* Spec on the longest holder list where the lookups of most wallets never
\* answer and those of the others may, with the fetches settling, the timers
\* firing and the steps of the code itself being taken; nothing is assumed
\* of the calls analyzeWallet awaits, nor of the caller cancelling
Answering == {k \in Wallets : significantHolders[k].address \in {"w3", "w6"}}

TimerNext ==
    \/ Start
    \/ GetAssetFound \/ GetAssetMissing \/ GetAssetFails
    \/ GetHoldersReturns \/ GetHoldersFails
    \/ \E k \in Wallets : Timeout(k)
    \/ BatchJoin
    \/ PacingDelayElapsed
    \/ Aggregate

NextTimers ==
    \/ TimerNext
    \/ \E k \in Answering : ExcessReply(k)
    \/ \E k \in Answering : FreshReply(k)
    \/ \E k \in Answering : InactivityReply(k)
    \/ \E k \in Answering : FundingReply(k)
    \/ Cancel

SpecTimers == InitLive /\ [][NextTimers]_vars /\ WF_vars(TimerNext)

(***************************************************************************)
(* Properties                                                              *)
(***************************************************************************)
HasReturned == result # <<>>
InFlight == {k \in DOMAIN proc : proc[k].aw \in InFlightStates}
Settled(k) == proc[k].entry # <<>>
\* the race of wallet k was lost to the timer
TimedOut(k) == Settled(k) /\ proc[k].entry[1].error = TimeoutMessage(significantHolders[k])
SameBatch(j, k) == (j - 1) \div BATCH_SIZE = (k - 1) \div BATCH_SIZE
TeamCategories == {"Fresh", "Inactive", "No Token", "No ATA Transaction"}

\* C1: the token stays cancelled once cancelled; from the moment it is
\* cancelled before the last poll the call never resolves with a result,
\* and (the awaited calls settling and the timers firing) it rejects, with
\* 'Analysis cancelled by user', however many batches were pushed.
C1_CancelledRejects ==
    /\ [](cancelled => ~HasReturned /\ pc # "returned")
    /\ [][cancelled => cancelled']_vars
    /\ cancelled ~> (pc = "rejected" /\ error = CANCELLED_MESSAGE)

\* cancelled after every batch had been pushed, more than one batch
C1_Witness ==
    /\ pc = "rejected" /\ cancelled /\ error = CANCELLED_MESSAGE
    /\ Len(analyzedWallets) = Len(significantHolders)
    /\ Len(analyzedWallets) > BATCH_SIZE

\* C2: a returned result lists the significant holders one to one and in
\* order: entry k has the address and the balance of significant holder k,
\* and every holder passing the filter is there exactly once.
C2_OneEntryPerHolder ==
    HasReturned =>
        LET wallets == result[1].scanData.analyzedWallets
        IN  /\ Len(wallets) = Len(significantHolders)
            /\ \A k \in 1..Len(wallets) :
                  /\ wallets[k].address = significantHolders[k].address
                  /\ wallets[k].balance = significantHolders[k].balance
            /\ \A j \in 1..Len(env.holders) :
                  (/\ env.holders[j].address \notin KNOWN_LP_POOLS
                   /\ 1000 * env.holders[j].balance >= env.supply)
                  => Cardinality({k \in 1..Len(wallets) :
                                    wallets[k].address = env.holders[j].address}) = 1

\* two batches, an Error entry and a team entry in the result
C2_Witness ==
    /\ HasReturned
    /\ Len(result[1].scanData.analyzedWallets) > BATCH_SIZE
    /\ \E j, k \in 1..Len(result[1].scanData.analyzedWallets) :
          /\ result[1].scanData.analyzedWallets[j].category = "Error"
          /\ result[1].scanData.analyzedWallets[k].category = "Fresh"
          /\ k < j

\* C3: a wallet the timer settles while its classification is still running
\* gets category Error and an error message mentioning timeout, and keeps
\* them when the classification settles later; a wallet whose classification
\* returned before its own timer keeps what the classification returned, in
\* the race and in analyzedWallets, whatever its siblings did.
C3_TimeoutIsLocal ==
    /\ [](\A k \in DOMAIN proc :
            /\ Settled(k) /\ k \in InFlight =>
                  /\ proc[k].entry[1].category = "Error"
                  /\ Includes(proc[k].entry[1].error, "timeout")
                  /\ proc[k].entry[1].address = significantHolders[k].address
            /\ proc[k].aw = "returned" /\ ~TimedOut(k) =>
                  /\ proc[k].entry = proc[k].value
                  /\ proc[k].entry[1].category # "Error"
            /\ Settled(k) /\ k <= Len(analyzedWallets) =>
                  analyzedWallets[k] = proc[k].entry[1])
    /\ [][\A k \in DOMAIN proc : Settled(k) => proc'[k].entry = proc[k].entry]_vars

\* a timed-out wallet beside a sibling of its batch that came back Fresh
C3_Witness ==
    \E j, k \in DOMAIN proc :
        /\ SameBatch(j, k)
        /\ Settled(j) /\ j \in InFlight
        /\ proc[k].aw = "returned" /\ proc[k].entry[1].category = "Fresh"
        /\ Len(analyzedWallets) >= Max(j, k)
        /\ analyzedWallets[j].category = "Error"
        /\ analyzedWallets[j].error = "Wallet analysis timeout for w4GkT9pQ..."
        /\ analyzedWallets[k].category = "Fresh"

\* C4: whatever a classification throws once its batch has started becomes
\* an Error entry with that message for that wallet (unless the timer had
\* already settled it); no call of the batch rejects, a started batch never
\* rejects the run, and when it ends it has pushed one entry per wallet.
C4_ThrowBecomesErrorEntry ==
    /\ [](\A k \in DOMAIN proc :
            /\ ~proc[k].rejected
            /\ proc[k].aw = "threw" =>
                  /\ Settled(k)
                  /\ proc[k].entry[1].category = "Error"
                  /\ proc[k].entry[1].error \in {proc[k].thrown, TimeoutMessage(significantHolders[k])})
    /\ [][pc = "batch" =>
            /\ pc' \in {"batch", "delay", "joined"}
            /\ pc' # "batch" =>
                  Len(analyzedWallets') = Min(i + BATCH_SIZE, Len(significantHolders))]_vars

\* a classification threw, and its Error entry was pushed with the batch
C4_Witness ==
    \E k \in DOMAIN proc :
        /\ proc[k].aw = "threw"
        /\ k <= Len(analyzedWallets)
        /\ analyzedWallets[k].category = "Error"
        /\ analyzedWallets[k].error = proc[k].thrown

\* C5: at most BATCH_SIZE classifications are running at any moment.  The
\* code does not stop a classification its timer gave up on, so a batch
\* can start while wallets of earlier batches are still running.
C5_AtMostBatchSizeInFlight == Cardinality(InFlight) <= BATCH_SIZE

\* C6: a cancellation raised inside analyzeWallet is never recorded as a
\* wallet entry of category Error.  The catch of analyzeWalletWithTimeout
\* records it.
C6_CancellationNeverAnEntry ==
    \A k \in DOMAIN proc :
        Settled(k) => ~(/\ proc[k].entry[1].category = "Error"
                        /\ proc[k].entry[1].error = CANCELLED_MESSAGE)

\* C7: after the filter step a fetched holder is among the significant
\* holders exactly if its address is no known pool and its balance is at
\* least a thousandth of the supply (0.001 has three digits, so truncating
\* the quotient at 18 digits does not change the comparison); the kept
\* holders keep their order, and filtering them again changes nothing.
C7_SignificantIffAboveThreshold ==
    pc \in {"batch", "joined"} =>
        /\ \A j \in 1..Len(env.holders) :
              (\E k \in 1..Len(significantHolders) : significantHolders[k] = env.holders[j])
              <=> (/\ env.holders[j].address \notin KNOWN_LP_POOLS
                   /\ 1000 * env.holders[j].balance >= env.supply)
        /\ \A k \in 1..Len(significantHolders) :
              \E j \in 1..Len(env.holders) : significantHolders[k] = env.holders[j]
        /\ FilterSignificant(significantHolders, env.supply) = significantHolders

\* a holder exactly at the threshold is kept, one just below is dropped
C7_Witness ==
    /\ pc = "batch"
    /\ Len(env.holders) = 2 /\ Len(significantHolders) = 1
    /\ 1000 * env.holders[1].balance = env.supply
    /\ significantHolders[1] = env.holders[1]
    /\ env.holders[2].address \notin KNOWN_LP_POOLS
    /\ env.holders[2].balance > 0

\* the double nearest to a / b, by binary long division
RECURSIVE QuotientBits(_, _, _, _, _)
QuotientBits(int, bits, r, b, sig) ==
    IF sig >= DOUBLE_PRECISION
    THEN IF 2 * r > b \/ (2 * r = b /\ (IF bits = <<>> THEN int % 2 = 1
                                                    ELSE bits[Len(bits)] = 1))
         THEN [int |-> int + IncrementBits(bits)[1],
               bits |-> StripZeros(IncrementBits(bits)[2])]
         ELSE [int |-> int, bits |-> StripZeros(bits)]
    ELSE IF r = 0 THEN [int |-> int, bits |-> StripZeros(bits)]
    ELSE QuotientBits(int, Append(bits, (2 * r) \div b), (2 * r) % b, b,
                      IF sig > 0 \/ (2 * r) \div b = 1 THEN sig + 1 ELSE 0)

NearestDouble(a, b) == QuotientBits(a \div b, <<>>, a % b, b, BitLength(a \div b))

\* the sum of the balances of the wallets whose category is a team category
RECURSIVE TeamSum(_)
TeamSum(wallets) ==
    IF wallets = <<>> THEN 0
    ELSE TeamSum(Tail(wallets))
         + (IF Head(wallets).category \in TeamCategories THEN Head(wallets).balance ELSE 0)

\* C8 as stated: totalSupplyControlled is 100 x (team balances) / supply,
\* exactly (the number nearest to that quotient).
C8_ExactPercentage ==
    HasReturned =>
        result[1].scanData.totalSupplyControlled
            = NearestDouble(100 * TeamSum(result[1].scanData.analyzedWallets),
                            result[1].scanData.tokenInfo.totalSupply)

\* C8 amended: totalSupplyControlled is the number nearest to 100 x q, q the
\* quotient (team balances) / supply cut off after 18 fractional digits; it
\* is never above the exact percentage; with supply 3 and three Fresh
\* holders of balance 1 it is exactly 100.
C8_TruncatedPercentage ==
    HasReturned =>
        LET scan   == result[1].scanData
            held   == TeamSum(scan.analyzedWallets)
            supply == scan.tokenInfo.totalSupply
            exact  == NearestDouble(100 * held, supply)
            got    == scan.totalSupplyControlled
        IN  /\ got = ToNumber(MultipliedBy100(DividedBy(BigNumber(held), BigNumber(supply))))
            /\ got.int <= exact.int
            /\ supply = 3 /\ Len(scan.analyzedWallets) = 3
               /\ (\A k \in 1..3 : /\ scan.analyzedWallets[k].category = "Fresh"
                                   /\ scan.analyzedWallets[k].balance = 1)
               => got = [int |-> 100, bits |-> <<>>]

\* supply 3, three Fresh holders of balance 1: exactly 100
C8_Witness ==
    /\ HasReturned
    /\ result[1].scanData.tokenInfo.totalSupply = 3
    /\ Len(result[1].scanData.analyzedWallets) = 3
    /\ \A k \in 1..3 : /\ result[1].scanData.analyzedWallets[k].category = "Fresh"
                       /\ result[1].scanData.analyzedWallets[k].balance = 1
    /\ result[1].scanData.totalSupplyControlled = [int |-> 100, bits |-> <<>>]

\* the addresses of the wallets of a sequence, in order
AddressSeq(wallets) == [k \in 1..Len(wallets) |-> wallets[k].address]

\* C9: isTeamWalletCategory holds exactly of Fresh, Inactive, No Token and
\* No ATA Transaction; in a returned result teamWallets lists exactly the
\* analyzed wallets of those categories, and totalSupplyControlled counts
\* exactly their balances: an Error or Normal wallet adds nothing.
C9_TeamCategoriesOnly ==
    /\ \A c \in WalletCategories : IsTeamWalletCategory(c) <=> c \in TeamCategories
    /\ ~IsTeamWalletCategory("Normal") /\ ~IsTeamWalletCategory("Error")
    /\ HasReturned =>
          LET scan == result[1].scanData
              team == SelectSeq(scan.analyzedWallets, LAMBDA w : w.category \in TeamCategories)
          IN  /\ AddressSeq(scan.teamWallets) = AddressSeq(team)
              /\ \A k \in 1..Len(scan.teamWallets) :
                    scan.teamWallets[k].category \in TeamCategories
              /\ \A k \in 1..Len(scan.analyzedWallets) :
                    scan.analyzedWallets[k].category \in {"Error", "Normal"}
                    => \A j \in 1..Len(scan.teamWallets) :
                          scan.teamWallets[j].address # scan.analyzedWallets[k].address
              /\ scan.totalSupplyControlled
                    = Percentage(BigNumber(TeamSum(scan.analyzedWallets)),
                                 scan.tokenInfo.totalSupply)

\* a result with a timed-out wallet, a Normal wallet and a team wallet
C9_Witness ==
    /\ HasReturned
    /\ Len(result[1].scanData.teamWallets) = 1
    /\ \E j, k \in 1..Len(result[1].scanData.analyzedWallets) :
          /\ result[1].scanData.analyzedWallets[j].category = "Error"
          /\ Includes(result[1].scanData.analyzedWallets[j].error, "timeout")
          /\ result[1].scanData.analyzedWallets[k].category = "Normal"

\* C10: once the excessive-activity lookup has answered with at least 1000
\* signatures (capped at 1001), analyzeWallet has returned the wallet as
\* Normal with null daysSinceLastActivity, funderAddress and fundingDetails,
\* and has called none of the freshness, inactivity and funding oracles,
\* whatever they would have answered.
C10_ExcessiveIsNormal ==
    \A k \in DOMAIN proc :
        (/\ proc[k].aw \notin {"idle", "excess"}
         /\ Oracle(k).excess.kind = "ok"
         /\ Min(Oracle(k).excess.count, 1001) >= 1000)
        => /\ proc[k].aw = "returned"
           /\ proc[k].value[1].address = significantHolders[k].address
           /\ proc[k].value[1].category = "Normal"
           /\ proc[k].value[1].daysSinceLastActivity = <<>>
           /\ proc[k].value[1].funderAddress = NULL
           /\ proc[k].value[1].fundingDetails = NULL
           /\ proc[k].calls = {"excess"}

\* exactly 1000 signatures, while the other oracles would have said Fresh,
\* No Token and funded
C10_Witness ==
    \E k \in DOMAIN proc :
        /\ proc[k].aw = "returned"
        /\ Oracle(k).excess = [kind |-> "ok", count |-> 1000]
        /\ Oracle(k).fresh = [kind |-> "ok", count |-> 50]
        /\ Oracle(k).inactivity.category = "No Token"
        /\ Oracle(k).funding = "funded"
        /\ Settled(k) /\ proc[k].entry[1].category = "Normal"

\* C11: in a returned result the scan view and the tracking view are one
\* classification pass: the same wallet sequence, the same team wallets,
\* the same totalSupplyControlled, the same token and supply.
C11_ViewsAgree ==
    HasReturned =>
        /\ result[1].scanData.analyzedWallets = result[1].trackingInfo.allWalletsDetails
        /\ result[1].scanData.analyzedWallets = analyzedWallets
        /\ result[1].scanData.teamWallets = result[1].trackingInfo.teamWallets
        /\ result[1].scanData.totalSupplyControlled
              = result[1].trackingInfo.totalSupplyControlled
        /\ result[1].scanData.tokenInfo.totalSupply = result[1].trackingInfo.totalSupply
        /\ result[1].scanData.tokenAddress = result[1].trackingInfo.tokenAddress

\* a result of three wallets, one timed out, one a team wallet
C11_Witness ==
    /\ HasReturned
    /\ Len(result[1].trackingInfo.allWalletsDetails) = 3
    /\ Len(result[1].trackingInfo.teamWallets) >= 1
    /\ \E k \in 1..3 : result[1].trackingInfo.allWalletsDetails[k].category = "Error"
    /\ result[1].trackingInfo.totalSupplyControlled # [int |-> 0, bits |-> <<>>]

\* nothing after the token-info fetch has happened
NothingFetched ==
    /\ tokenInfo = <<>> /\ significantHolders = <<>> /\ proc = <<>>
    /\ analyzedWallets = <<>> /\ result = <<>>

\* C12 as stated: when getAsset returns no token info the call rejects with
\* 'No token info found', unmodified.
C12_NoTokenInfoUnmodified ==
    [][GetAssetMissing => pc' = "rejected" /\ error' = NO_TOKEN_INFO_MESSAGE]_vars

\* C12 amended: when getAsset returns no token info the call rejects, with
\* 'No token info found' if the token is not cancelled at that moment and
\* with 'Analysis cancelled by user' if it is; either way the holder list
\* is never fetched, no wallet is classified and no result is returned.
C12_NoTokenInfoRejects ==
    /\ [][GetAssetMissing =>
            /\ pc' = "rejected"
            /\ error' = (IF cancelled THEN CANCELLED_MESSAGE ELSE NO_TOKEN_INFO_MESSAGE)
            /\ NothingFetched']_vars
    /\ [](pc = "rejected" /\ error = NO_TOKEN_INFO_MESSAGE => ~cancelled /\ NothingFetched)
    /\ [][pc = "rejected" /\ NothingFetched => pc' = "rejected" /\ NothingFetched']_vars

\* rejected with 'No token info found', the token not cancelled
C12_Witness ==
    /\ pc = "rejected" /\ error = NO_TOKEN_INFO_MESSAGE
    /\ error # CANCELLED_MESSAGE /\ ~cancelled
    /\ NothingFetched

Started(k) == proc[k].aw # "idle" \/ proc[k].rejected
BatchOf(k) == (k - 1) \div BATCH_SIZE

\* C13: when a classification of a batch has been started, every wallet of
\* every earlier batch has settled (a classification result, a converted
\* Error or a timeout Error) and its entry has been pushed; wallets are
\* started in index order.
C13_BatchesSequential ==
    \A j, k \in DOMAIN proc :
        /\ BatchOf(j) < BatchOf(k) /\ Started(k) =>
              /\ Settled(j)
              /\ j <= Len(analyzedWallets)
              /\ analyzedWallets[j] = proc[j].entry[1]
        /\ j < k /\ Started(k) => Started(j)

\* the second batch is running; the first ended with a result, a converted
\* Error and a timeout
C13_Witness ==
    /\ \E k \in DOMAIN proc : BatchOf(k) = 1 /\ proc[k].aw \in InFlightStates
    /\ \E j \in DOMAIN proc : BatchOf(j) = 0 /\ TimedOut(j) /\ j \in InFlight
    /\ \E j \in DOMAIN proc : BatchOf(j) = 0 /\ proc[j].aw = "returned"
                              /\ proc[j].entry[1].category = "Fresh"

\* the external calls wallet k makes in a step
NewCalls(k) == proc'[k].calls \ (IF k \in DOMAIN proc THEN proc[k].calls ELSE {})

\* C14: every external call of analyzeWallet (excessive-activity lookup,
\* freshness lookup, inactivity oracle, funding oracle) is preceded by a
\* cancellation poll, so none is made while the token is cancelled.  No
\* poll stands between the excessive-activity lookup and the freshness
\* lookup.
C14_EveryStepPolled ==
    [][\A k \in DOMAIN proc' : NewCalls(k) # {} => ~cancelled]_vars

\* the freshness lookup of wallet k says fresh: fewer than 100 signatures
\* of at most 101 asked for
SaysFresh(k) ==
    /\ Oracle(k).fresh.kind = "ok"
    /\ Min(Oracle(k).fresh.count, FRESH_WALLET_THRESHOLD + 1) < FRESH_WALLET_THRESHOLD

\* analyzeWallet of wallet k has raised the cancellation error
RaisedCancellation(k) ==
    /\ proc[k].aw = "threw" /\ proc[k].thrown = CANCELLED_MESSAGE
    /\ proc[k].value = <<>>

\* C15: the token cancelled when analyzeWallet reaches the poll before the
\* inactivity oracle (the freshness lookup has answered not fresh): neither
\* the inactivity nor the funding oracle is called and analyzeWallet raises
\* the cancellation error; cancelled at the poll before the funding oracle
\* (fresh wallet, or the inactivity oracle has answered): the funding oracle
\* is not called and the cancellation error is raised.
C15_PollsBeforeOracles ==
    /\ [][\A k \in DOMAIN proc :
            /\ cancelled /\ proc[k].aw = "fresh" /\ proc'[k].aw # "fresh" /\ ~SaysFresh(k)
               => /\ RaisedCancellation(k)'
                  /\ proc'[k].calls = {"excess", "fresh"}
            /\ cancelled /\ proc[k].aw \in {"fresh", "inactivity"} /\ proc'[k].aw # proc[k].aw
               => /\ RaisedCancellation(k)'
                  /\ "funding" \notin proc'[k].calls
                  /\ proc'[k].calls = proc[k].calls]_vars
    /\ [](\A k \in DOMAIN proc :
            proc[k].aw = "threw" => RaisedCancellation(k) /\ cancelled
                                    /\ "funding" \notin proc[k].calls)

\* cancelled at the poll before the inactivity oracle of a wallet that is
\* not fresh and whose oracles would have answered
C15_Witness ==
    \E k \in DOMAIN proc :
        /\ RaisedCancellation(k)
        /\ proc[k].calls = {"excess", "fresh"}
        /\ Oracle(k).fresh = [kind |-> "ok", count |-> 2000]
        /\ Oracle(k).inactivity.kind = "ok" /\ Oracle(k).inactivity.isInactive
        /\ Oracle(k).funding = "funded"

\* analyzeWallet of wallet k went past the excessive-activity short cut
NotShortCircuited(k) == "fresh" \in proc[k].calls

\* the category the freshness and inactivity answers of wallet k decide
DecidedCategory(k) ==
    LET a == Oracle(k).inactivity
    IN  CASE SaysFresh(k) -> "Fresh"
          [] ~SaysFresh(k) /\ a.kind = "ok" /\ a.category = "No Token" -> "No Token"
          [] ~SaysFresh(k) /\ a.kind = "ok" /\ a.category = "No ATA Transaction"
                -> "No ATA Transaction"
          [] ~SaysFresh(k) /\ a.kind = "ok" /\ a.category = NULL /\ a.isInactive -> "Inactive"
          [] OTHER -> "Normal"

\* C16: a wallet that is not short-circuited and that analyzeWallet returns
\* has the category decided in the fixed order Fresh (fewer than 100 of at
\* most 101 signatures; the inactivity oracle is then not called), No Token,
\* No ATA Transaction, Inactive, Normal; daysSinceLastActivity is set, from
\* the oracle, only when the category is Inactive.
C16_CategoryOrder ==
    \A k \in DOMAIN proc :
        /\ NotShortCircuited(k) /\ SaysFresh(k) /\ proc[k].aw # "fresh"
              => "inactivity" \notin proc[k].calls
        /\ NotShortCircuited(k) /\ proc[k].aw = "returned" =>
              /\ proc[k].value[1].category = DecidedCategory(k)
              /\ proc[k].value[1].daysSinceLastActivity # <<>>
                    => proc[k].value[1].category = "Inactive"
              /\ proc[k].value[1].category = "Inactive"
                    => proc[k].value[1].daysSinceLastActivity
                          = Oracle(k).inactivity.daysSinceLastActivity
              /\ ~SaysFresh(k) => "inactivity" \in proc[k].calls

\* 100 signatures are not fresh; the oracle says No Token and inactive at
\* once, and the wallet is returned as No Token without days
C16_Witness ==
    \E k \in DOMAIN proc :
        /\ proc[k].aw = "returned"
        /\ Oracle(k).excess = [kind |-> "ok", count |-> 999]
        /\ Oracle(k).fresh = [kind |-> "ok", count |-> 100]
        /\ Oracle(k).inactivity.category = "No Token" /\ Oracle(k).inactivity.isInactive
        /\ proc[k].value[1].category = "No Token"
        /\ proc[k].value[1].daysSinceLastActivity = <<>>

\* the inactivity oracle was called for wallet k and threw
InactivityThrew(k) ==
    /\ "inactivity" \in proc[k].calls /\ proc[k].aw # "inactivity"
    /\ Oracle(k).inactivity.kind = "throw"

\* C17: when the inactivity oracle throws, whatever its message ('No Token'
\* in it or not), the category stays Normal, analyzeWallet goes on to the
\* funding step (its poll, then the funding oracle unless the token is
\* cancelled by then) and never returns the wallet as Error.
C17_InactivityThrowKeepsNormal ==
    /\ [](\A k \in DOMAIN proc : InactivityThrew(k) =>
            /\ proc[k].category = "Normal" /\ proc[k].days = <<>>
            /\ \/ "funding" \in proc[k].calls /\ proc[k].aw \in {"funding", "returned"}
               \/ RaisedCancellation(k) /\ "funding" \notin proc[k].calls
            /\ proc[k].aw = "returned" =>
                  /\ proc[k].value[1].category = "Normal"
                  /\ proc[k].value[1].daysSinceLastActivity = <<>>
                  /\ proc[k].value[1].error = UNDEFINED)
    /\ [][\A k \in DOMAIN proc :
            /\ proc[k].aw = "inactivity" /\ proc'[k].aw # "inactivity"
            /\ Oracle(k).inactivity.kind = "throw" /\ ~cancelled
            => proc'[k].aw = "funding" /\ NewCalls(k) = {"funding"}]_vars

\* the oracle threw 'No Token account'; the wallet came back Normal, with
\* its funder
C17_Witness ==
    \E k \in DOMAIN proc :
        /\ InactivityThrew(k) /\ Oracle(k).inactivity.message = "No Token account"
        /\ proc[k].aw = "returned"
        /\ proc[k].value[1].category = "Normal"
        /\ proc[k].value[1].funderAddress = "funder"

\* C18: the funding step never changes the category: when the funding
\* oracle settles (a funder, an entry without funder, an empty list or a
\* throw) analyzeWallet returns the wallet with the category and the days
\* the freshness and inactivity steps had decided; with a throw or nothing
\* returned, funderAddress and fundingDetails are null and the category is
\* not Error.
C18_FundingKeepsCategory ==
    /\ [][\A k \in DOMAIN proc :
            proc[k].aw = "funding" /\ proc'[k].aw # "funding" =>
                /\ proc'[k].aw = "returned"
                /\ proc'[k].value[1].category = proc[k].category
                /\ proc'[k].value[1].daysSinceLastActivity = proc[k].days
                /\ proc'[k].value[1].address = significantHolders[k].address
                /\ Oracle(k).funding \in {"throw", "empty"} =>
                      /\ proc'[k].value[1].funderAddress = NULL
                      /\ proc'[k].value[1].fundingDetails = NULL]_vars
    /\ [](\A k \in DOMAIN proc :
            /\ proc[k].aw = "funding" => proc[k].category = DecidedCategory(k)
            /\ NotShortCircuited(k) /\ proc[k].aw = "returned" =>
                  /\ proc[k].value[1].category = DecidedCategory(k)
                  /\ proc[k].value[1].category # "Error")

\* the funding oracle threw for a wallet found Inactive: returned Inactive,
\* with its days and no funder
C18_Witness ==
    \E k \in DOMAIN proc :
        /\ proc[k].aw = "returned" /\ "funding" \in proc[k].calls
        /\ Oracle(k).funding = "throw"
        /\ proc[k].value[1].category = "Inactive"
        /\ proc[k].value[1].daysSinceLastActivity = <<45>>
        /\ proc[k].value[1].funderAddress = NULL
        /\ proc[k].value[1].fundingDetails = NULL

\* C19: a signature lookup that throws is taken as a no: after a throwing
\* excessive-activity lookup analyzeWallet calls the freshness lookup; after
\* a throwing freshness lookup it goes on to the inactivity step (its poll,
\* then the inactivity oracle unless the token is cancelled by then); the
\* wallet is never returned as Error for it.
C19_LookupsFailOpen ==
    /\ [][\A k \in DOMAIN proc :
            /\ proc[k].aw = "excess" /\ proc'[k].aw # "excess"
               /\ Oracle(k).excess.kind = "throw"
               => proc'[k].aw = "fresh" /\ NewCalls(k) = {"fresh"}
            /\ proc[k].aw = "fresh" /\ proc'[k].aw # "fresh"
               /\ Oracle(k).fresh.kind = "throw"
               => IF cancelled THEN RaisedCancellation(k)'
                  ELSE /\ proc'[k].aw = "inactivity" /\ NewCalls(k) = {"inactivity"}
                       /\ proc'[k].category = "Normal"]_vars
    /\ [](\A k \in DOMAIN proc :
            /\ proc[k].aw = "returned"
            /\ Oracle(k).excess.kind = "throw" \/ Oracle(k).fresh.kind = "throw"
            => /\ proc[k].value[1].category # "Error"
               /\ NotShortCircuited(k) => proc[k].value[1].category = DecidedCategory(k)
               /\ proc[k].value[1].error = UNDEFINED)

\* both lookups threw; the inactivity oracle decided: Inactive
C19_Witness ==
    \E k \in DOMAIN proc :
        /\ proc[k].aw = "returned"
        /\ Oracle(k).excess.kind = "throw" /\ Oracle(k).fresh.kind = "throw"
        /\ proc[k].calls = {"excess", "fresh", "inactivity", "funding"}
        /\ proc[k].value[1].category = "Inactive"

\* C20: once the race of a wallet has settled (as a timeout Error in
\* particular), no step changes its entry, whatever its classification
\* does later, and no step changes or drops an entry already pushed to
\* analyzedWallets; a timed-out wallet is in analyzedWallets, and in the
\* result, as the timeout Error.
C20_LateCompletionChangesNothing ==
    /\ [][/\ \A k \in DOMAIN proc : Settled(k) => proc'[k].entry = proc[k].entry
          /\ \A j \in 1..Len(analyzedWallets) :
                j <= Len(analyzedWallets') /\ analyzedWallets'[j] = analyzedWallets[j]
          /\ HasReturned => result' = result]_vars
    /\ [](\A k \in DOMAIN proc :
            /\ TimedOut(k) /\ k <= Len(analyzedWallets) =>
                  analyzedWallets[k]
                      = ErrorEntry(significantHolders[k], TimeoutMessage(significantHolders[k]))
            /\ TimedOut(k) /\ HasReturned =>
                  result[1].scanData.analyzedWallets[k].category = "Error")

\* a wallet recorded as a timeout Error whose classification came back
\* Normal after the next batch had been pushed
C20_Witness ==
    \E k \in DOMAIN proc :
        /\ TimedOut(k) /\ BatchOf(k) = 0
        /\ proc[k].aw = "returned" /\ proc[k].value[1].category = "Normal"
        /\ Len(analyzedWallets) > BATCH_SIZE
        /\ analyzedWallets[k].category = "Error"
        /\ HasReturned

\* the number of batches of n wallets
Batches(n) == (n + BATCH_SIZE - 1) \div BATCH_SIZE

\* C21: the scheduler waits one pacing delay between the join of a batch
\* and the start of the next and none after the last batch: a wallet of
\* batch b > 0 is started by the step that ends the b-th delay; the join of
\* a batch goes to the delay exactly if wallets are left; when the scheduler
\* has returned it has waited (number of batches - 1) delays, none for
\* five wallets or for no wallet.
C21_DelayBetweenBatches ==
    /\ [][/\ \A k \in DOMAIN proc :
                ~Started(k) /\ Started(k)' /\ BatchOf(k) > 0
                => pc = "delay" /\ delays' = delays + 1 /\ delays' = BatchOf(k)
          /\ pc = "batch" /\ pc' # "batch" /\ pc' # "rejected" =>
                /\ delays' = delays
                /\ pc' = (IF Len(analyzedWallets') < Len(significantHolders)
                          THEN "delay" ELSE "joined")
          /\ delays' # delays => pc = "delay" /\ pc' \in {"batch", "rejected"}]_vars
    /\ [](pc \in {"joined", "returned"} =>
            delays = (IF significantHolders = <<>> THEN 0
                      ELSE Batches(Len(significantHolders)) - 1))
    /\ [](Len(significantHolders) <= BATCH_SIZE => delays = 0)

\* two batches, one delay between them, none after the second
C21_Witness ==
    /\ pc = "joined"
    /\ Len(significantHolders) = BATCH_SIZE + 1
    /\ Len(analyzedWallets) = BATCH_SIZE + 1
    /\ delays = 1

\* C22: a run of fewer than 10 wallets emits one progress notification for
\* every wallet processed.  The notification of a wallet is emitted when
\* its index has reached lastProgressLog + progressStep, and lastProgressLog
\* starts at 0: index 0 never notifies.
C22_OneNotificationPerWallet ==
    pc \in {"joined", "returned"} /\ Len(significantHolders) < 10
    => Len(progressLogs) = Len(significantHolders)

Settles == pc \in {"returned", "rejected"}

\* C23: with the token-info and holder fetches settling and the timers
\* firing, analyzeTeamSupply settles in the end, whether the calls the
\* classifications await ever answer or not: a started batch is joined (or
\* the run rejected), and a run that returns has an entry for every
\* significant holder.
C23_EventuallySettles ==
    /\ (pc = "start") ~> Settles
    /\ (pc = "batch") ~> (pc \in {"delay", "joined", "rejected"})
    /\ [](pc = "returned" => Len(analyzedWallets) = Len(significantHolders))

\* a result returned while no classification of either batch has answered
C23_Witness ==
    /\ pc = "returned"
    /\ Len(significantHolders) > BATCH_SIZE
    /\ \A k \in DOMAIN proc : proc[k].aw = "excess" /\ TimedOut(k)

\* the classification of wallet k has been started
WasStarted(k) == k \in DOMAIN proc /\ Started(k)

\* C24: a batch is started whole or not at all: the wallets of a batch are
\* started together, in one step, with the token not cancelled; the polls
\* at the start of analyzeWalletWithTimeout and of analyzeWallet never
\* throw (no call rejects without a race, no classification throws before
\* its first lookup); once the run has rejected no wallet is started.
C24_BatchStartedWhole ==
    /\ [](\A j, k \in 1..Len(significantHolders) :
            /\ BatchOf(j) = BatchOf(k) => (WasStarted(j) <=> WasStarted(k))
            /\ WasStarted(k) => ~proc[k].rejected /\ "excess" \in proc[k].calls)
    /\ [][\A k \in 1..Len(significantHolders') :
            ~WasStarted(k) /\ WasStarted(k)' =>
                /\ ~cancelled /\ ~cancelled'
                /\ proc'[k].aw = "excess"
                /\ pc' = "batch" /\ BatchOf(k) = i' \div BATCH_SIZE
                /\ \A j \in 1..Len(significantHolders') :
                      BatchOf(j) = BatchOf(k) => ~WasStarted(j) /\ proc'[j].aw = "excess"]_vars
    /\ [][pc = "rejected" =>
            \A k \in 1..Len(significantHolders) : WasStarted(k)' => WasStarted(k)]_vars

\* the poll before the second batch saw the cancellation: the first batch
\* was started and pushed whole, nothing of the second was started
C24_Witness ==
    /\ pc = "rejected" /\ cancelled /\ error = CANCELLED_MESSAGE
    /\ Len(significantHolders) > BATCH_SIZE
    /\ Len(analyzedWallets) = BATCH_SIZE
    /\ \A k \in 1..Len(significantHolders) : WasStarted(k) <=> BatchOf(k) = 0
    /\ delays = 1

\* C25: a rejection of analyzeTeamSupply while the token reports cancelled
\* carries 'Analysis cancelled by user', whatever was caught; while the
\* token does not report cancelled it carries the caught error: 'No token
\* info found' or the error of getAsset when the token-info fetch was
\* pending, the error of getHolders when the holder fetch was pending.
C25_CatchConvertsWhenCancelled ==
    /\ [][pc # "rejected" /\ pc' = "rejected" =>
            /\ cancelled' = cancelled
            /\ cancelled => error' = CANCELLED_MESSAGE
            /\ ~cancelled /\ pc = "getAsset"
                  => error' \in {NO_TOKEN_INFO_MESSAGE, "getAsset failed"}
            /\ ~cancelled /\ pc = "getHolders" => error' = "getHolders failed"
            /\ ~cancelled => pc \in {"getAsset", "getHolders"}]_vars
    /\ [](pc = "rejected" =>
            (cancelled <=> error = CANCELLED_MESSAGE)
            /\ result = <<>>)
    /\ [](pc # "rejected" => error = NULL)

\* rejected at the holder fetch with the token cancelled meanwhile
C25_Witness ==
    /\ pc = "rejected" /\ cancelled /\ error = CANCELLED_MESSAGE
    /\ tokenInfo # <<>> /\ significantHolders = <<>> /\ proc = <<>>

====
